---- MODULE Spec2Model ----
(***************************************************************************)
(* A model of the two command-line tools of concat-files-tool:             *)
(*   - concat_tool/cli.py: walk one or more root directories (or take an   *)
(*     explicit file list), sort, drop paths that clash with the output    *)
(*     separators, and write the rendered files to one stream, to one file *)
(*     per input, or to one file per directory group;                      *)
(*   - list_file_paths_tool/cli.py: walk the current directory and print   *)
(*     the matching paths.                                                 *)
(*                                                                         *)
(* Strings are sequences of one-character strings, compared by code point  *)
(* as Python compares str.  A path (pathlib.Path, always relative here) is *)
(* the sequence of its components.  The platform is POSIX: os.sep is "/".  *)
(***************************************************************************)
EXTENDS Integers, Sequences, FiniteSets, TLC

\* ------------------------------------------------------------- strings

\* The code point of every character the model's names are written with.
Ord ==
    [c \in {"*", "-", ".", "/", "D", "S", "_"} |->
        CASE c = "*" -> 42 [] c = "-" -> 45 [] c = "." -> 46 [] c = "/" -> 47
          [] c = "D" -> 68 [] c = "S" -> 83 [] c = "_" -> 95]
    @@
    [c \in {"a", "b", "c", "d", "e", "f", "g", "h", "i", "j", "k", "l", "m",
            "n", "o", "p", "r", "s", "t", "u", "v", "x", "y"} |->
        CASE c = "a" -> 97  [] c = "b" -> 98  [] c = "c" -> 99  [] c = "d" -> 100
          [] c = "e" -> 101 [] c = "f" -> 102 [] c = "g" -> 103 [] c = "h" -> 104
          [] c = "i" -> 105 [] c = "j" -> 106 [] c = "k" -> 107 [] c = "l" -> 108
          [] c = "m" -> 109 [] c = "n" -> 110 [] c = "o" -> 111 [] c = "p" -> 112
          [] c = "r" -> 114 [] c = "s" -> 115 [] c = "t" -> 116 [] c = "u" -> 117
          [] c = "v" -> 118 [] c = "x" -> 120 [] c = "y" -> 121]

\* os.sep on the modelled platform.
Sep == "/"

\* Python's  s < t  on str: the first differing code point decides, and a
\* proper prefix is smaller.
RECURSIVE StrLt(_, _)
StrLt(s, t) ==
    IF t = <<>> THEN FALSE
    ELSE IF s = <<>> THEN TRUE
    ELSE IF Head(s) = Head(t) THEN StrLt(Tail(s), Tail(t))
    ELSE Ord[Head(s)] < Ord[Head(t)]

StrLe(s, t) == s = t \/ StrLt(s, t)

\* Python's  sub in s .
Contains(sub, s) ==
    \E i \in 0..(Len(s) - Len(sub)) : SubSeq(s, i + 1, i + Len(sub)) = sub

\* str.startswith / str.endswith
StartsWith(s, pre) == Len(pre) <= Len(s) /\ SubSeq(s, 1, Len(pre)) = pre

EndsWith(s, suf) ==
    Len(suf) <= Len(s) /\ SubSeq(s, Len(s) - Len(suf) + 1, Len(s)) = suf

\* sep.join(parts)
RECURSIVE Join(_)
Join(parts) ==
    IF parts = <<>> THEN <<>>
    ELSE IF Len(parts) = 1 THEN parts[1]
    ELSE parts[1] \o <<Sep>> \o Join(Tail(parts))

\* s.split(os.sep): always at least one piece, empty pieces kept.
RECURSIVE SplitAcc(_, _)
SplitAcc(s, cur) ==
    IF s = <<>> THEN <<cur>>
    ELSE IF Head(s) = Sep THEN <<cur>> \o SplitAcc(Tail(s), <<>>)
    ELSE SplitAcc(Tail(s), Append(cur, Head(s)))

Split(s) == SplitAcc(s, <<>>)

\* s.replace(os.sep, new)
RECURSIVE ReplaceSep(_, _)
ReplaceSep(s, new) ==
    IF s = <<>> THEN <<>>
    ELSE (IF Head(s) = Sep THEN new ELSE <<Head(s)>>) \o ReplaceSep(Tail(s), new)

\* os.path.normpath on a relative path without "..": empty and "."
\* components are dropped, and nothing left is ".".
NormPath(s) ==
    LET kept == SelectSeq(Split(s), LAMBDA c : c # <<>> /\ c # <<".">>)
    IN  IF kept = <<>> THEN <<".">> ELSE Join(kept)

\* --------------------------------------------------------------- paths

\* str(Path): the components joined by os.sep, "." for the empty path.
PathStr(p) == IF p = <<>> THEN <<".">> ELSE Join(p)

\* Path(s): empty and "." components vanish.
ToPath(s) == SelectSeq(Split(s), LAMBDA c : c # <<>> /\ c # <<".">>)

\* Path.parent of a relative path
Parent(p) == IF p = <<>> THEN <<>> ELSE SubSeq(p, 1, Len(p) - 1)

\* Path.name
Name(p) == IF p = <<>> THEN <<>> ELSE p[Len(p)]

\* Path.__lt__: the component lists are compared, component by component,
\* each component as a str.
RECURSIVE PathLt(_, _)
PathLt(p, q) ==
    IF q = <<>> THEN FALSE
    ELSE IF p = <<>> THEN TRUE
    ELSE IF Head(p) = Head(q) THEN PathLt(Tail(p), Tail(q))
    ELSE StrLt(Head(p), Head(q))

PathLe(p, q) == p = q \/ PathLt(p, q)

\* sorted(paths) / list.sort() on Path objects: a stable insertion sort.
RECURSIVE InsertPath(_, _)
InsertPath(p, s) ==
    IF s = <<>> THEN <<p>>
    ELSE IF PathLt(p, Head(s)) THEN <<p>> \o s
    ELSE <<Head(s)>> \o InsertPath(p, Tail(s))

RECURSIVE SortedPaths(_)
SortedPaths(s) ==
    IF s = <<>> THEN <<>>
    ELSE InsertPath(s[Len(s)], SortedPaths(SubSeq(s, 1, Len(s) - 1)))

\* ---------------------------------------------------- the two programs

\* DEFAULT_EXCLUDE_DIRS: the same twenty names in both tools.
DEFAULT_EXCLUDE_DIRS ==
    { <<".", "g", "i", "t">>,                                          \* .git
      <<".", "s", "v", "n">>,                                          \* .svn
      <<".", "h", "g">>,                                               \* .hg
      <<".", "v", "e", "n", "v">>,                                     \* .venv
      <<"v", "e", "n", "v">>,                                          \* venv
      <<"e", "n", "v">>,                                               \* env
      <<"_", "_", "p", "y", "c", "a", "c", "h", "e", "_", "_">>,       \* __pycache__
      <<"b", "u", "i", "l", "d">>,                                     \* build
      <<"d", "i", "s", "t">>,                                          \* dist
      <<"*", ".", "e", "g", "g", "-", "i", "n", "f", "o">>,            \* *.egg-info
      <<"n", "o", "d", "e", "_", "m", "o", "d", "u", "l", "e", "s">>,  \* node_modules
      <<".", "i", "d", "e", "a">>,                                     \* .idea
      <<".", "v", "s", "c", "o", "d", "e">>,                           \* .vscode
      <<".", "D", "S", "_", "S", "t", "o", "r", "e">>,                 \* .DS_Store
      <<".", "c", "a", "c", "h", "e">>,                                \* .cache
      <<".", "p", "y", "t", "e", "s", "t", "_", "c", "a", "c", "h", "e">>,  \* .pytest_cache
      <<".", "m", "y", "p", "y", "_", "c", "a", "c", "h", "e">>,       \* .mypy_cache
      <<".", "t", "o", "x">>,                                          \* .tox
      <<"t", "a", "r", "g", "e", "t">>,                                \* target
      <<"v", "e", "n", "d", "o", "r">> }                               \* vendor

\* An option that was not given (argparse's None) is the empty sequence: the
\* code tests every one of them for truth only, and both are false.

VARIABLES
    tool,           \* "concat" or "list": which program runs
    fs,             \* the regular files below the working directory, as paths
    args,           \* the parsed command line
    pc,             \* the position of main
    err,            \* the message of parser.error, "" while there is none
    di,             \* concat main: index into args.directory
    top,            \* the walker's argument (os.walk's top), a string
    stack,          \* os.walk: the directories still to be listed, next first
    files,          \* the walker's local result list
    opened,         \* every directory os.walk has listed, in order
    walked,         \* every root the walker was called on, in order
    exclude_dirs,   \* list main: the combined exclusion set
    file_paths,     \* main's list of paths
    valid_paths,    \* check_file_path_conflicts: valid
    invalid_paths,  \* check_file_path_conflicts: invalid
    groups,         \* group_files_by_directory, in insertion order
    oi,             \* index of the next group or file to write
    disk,           \* the content of every file, by path string
    stream,         \* single-output mode: what was written to out_file
    ops,            \* every read_text and open-for-write, in order
    stdout          \* what the run printed besides warnings

vars ==
    << tool, fs, args, pc, err, di, top, stack, files, opened, walked,
       exclude_dirs, file_paths, valid_paths, invalid_paths, groups, oi,
       disk, stream, ops, stdout >>

\* ---------------------------------------------------------- file system

\* The proper prefixes of the files are the directories; the empty path is
\* the working directory.
Prefixes(p) == { SubSeq(p, 1, k) : k \in 0..(Len(p) - 1) }

Dirs(f) == {<<>>} \cup UNION { Prefixes(p) : p \in f }

\* Path.exists() and Path.is_dir() / Path.is_file()
IsDir(f, p) == p \in Dirs(f)

IsFile(f, p) == p \in f

\* What os.scandir finds in directory d.
SubdirNames(f, d) == { Name(q) : q \in { q \in Dirs(f) : q # <<>> /\ Parent(q) = d } }

FileNames(f, d) == { Name(q) : q \in { q \in f : Parent(q) = d } }

\* os.scandir returns the entries in an order the platform chooses.
Orders(S) ==
    { s \in [1..Cardinality(S) -> S] : { s[i] : i \in DOMAIN s } = S }

\* os.path.join(root, name)
OsJoin(root, name) == root \o <<Sep>> \o name

\* os.path.relpath(path, start) for a path at or below start, both relative
\* to the working directory.
RelPath(path, start) ==
    LET pp == ToPath(NormPath(path))
        sp == ToPath(NormPath(start))
        rest == SubSeq(pp, Len(sp) + 1, Len(pp))
    IN  IF rest = <<>> THEN <<".">> ELSE Join(rest)

\* ------------------------------------------------------ Exclusion Filter

\* should_exclude_dir (the same function in both tools): any component of
\* the normalized path is in the set.
should_exclude_dir(dir_path, excl) ==
    LET parts == Split(NormPath(dir_path))
    IN  \E i \in 1..Len(parts) : parts[i] \in excl

\* dirs[:] = [d for d in dirs if not should_exclude_dir(d, ...)]
PruneDirsNone(dirs, excl) == dirs

PruneDirs(dirs, excl) ==
    SelectSeq(dirs, LAMBDA d : ~should_exclude_dir(d, excl))

\* ---------------------------------------------------------- Tree Walker

\* exts = [ext if ext.startswith('.') else f'.{ext}' for ext in extensions]
NormalizeExts(extensions) ==
    [i \in DOMAIN extensions |->
        IF StartsWith(extensions[i], <<".">>) THEN extensions[i]
        ELSE <<".">> \o extensions[i]]

\* any(filename.endswith(ext) for ext in exts)
AnyEndsWith(filename, exts) ==
    \E i \in DOMAIN exts : EndsWith(filename, exts[i])

\* The concat walker's choice for one file name.
ConcatKeeps(filename, extensions) ==
    IF extensions # <<>>
    THEN AnyEndsWith(filename, NormalizeExts(extensions))
    ELSE TRUE

\* The list walker's choice for one file name: no normalization.
ListKeeps(filename, extensions) == AnyEndsWith(filename, extensions)

\* One iteration of  for root, dirs, filenames in os.walk(directory)  in
\* get_files_from_directory.
ConcatWalkStep ==
    /\ tool = "concat" /\ pc = "walk" /\ stack # <<>>
    /\ LET root == Head(stack)
           here == ToPath(root)
       IN  \E dirs \in Orders(SubdirNames(fs, here)) :
           \E filenames \in Orders(FileNames(fs, here)) :
              LET kept == PruneDirs(dirs, DEFAULT_EXCLUDE_DIRS)
                  emit == IF should_exclude_dir(RelPath(root, top), DEFAULT_EXCLUDE_DIRS)
                          THEN <<>>
                          ELSE SelectSeq(filenames,
                                   LAMBDA n : ConcatKeeps(n, args.extensions))
              IN  /\ files' = files \o [i \in DOMAIN emit |-> Append(here, emit[i])]
                  /\ stack' = [i \in DOMAIN kept |-> OsJoin(root, kept[i])] \o Tail(stack)
                  /\ opened' = Append(opened, [top |-> top, root |-> root])
    /\ UNCHANGED << tool, fs, args, pc, err, di, top, walked, exclude_dirs,
                    file_paths, valid_paths, invalid_paths, groups, oi, disk,
                    stream, ops, stdout >>

\* One iteration of  for root, dirs, files in os.walk(".")  in get_file_paths.
ListWalkStep ==
    /\ tool = "list" /\ pc = "walk" /\ stack # <<>>
    /\ LET root == Head(stack)
           here == ToPath(root)
       IN  \E dirs \in Orders(SubdirNames(fs, here)) :
           \E filenames \in Orders(FileNames(fs, here)) :
              LET kept == PruneDirs(dirs, exclude_dirs)
                  emit == IF should_exclude_dir(root, exclude_dirs)
                          THEN <<>>
                          ELSE SelectSeq(filenames,
                                   LAMBDA n : ListKeeps(n, args.extensions))
              IN  /\ files' = files \o
                        [i \in DOMAIN emit |-> RelPath(OsJoin(root, emit[i]), <<".">>)]
                  /\ stack' = [i \in DOMAIN kept |-> OsJoin(root, kept[i])] \o Tail(stack)
                  /\ opened' = Append(opened, [top |-> top, root |-> root])
    /\ UNCHANGED << tool, fs, args, pc, err, di, top, walked, exclude_dirs,
                    file_paths, valid_paths, invalid_paths, groups, oi, disk,
                    stream, ops, stdout >>

\* ------------------------------------------------- Path Conflict Checker

RECURSIVE check_file_path_conflicts_prefix_only(_, _, _)
check_file_path_conflicts_prefix_only(paths, prefix_sep, dir_sep) ==
    IF paths = <<>> THEN [valid |-> <<>>, invalid |-> <<>>]
    ELSE LET fp == Head(paths)
             rest == check_file_path_conflicts_prefix_only(Tail(paths), prefix_sep, dir_sep)
         IN  IF Contains(prefix_sep, PathStr(fp))
             THEN [valid |-> rest.valid, invalid |-> <<fp>> \o rest.invalid]
             ELSE [valid |-> <<fp>> \o rest.valid, invalid |-> rest.invalid]

\* check_file_path_conflicts: (valid_paths, invalid_paths), each in input order.
RECURSIVE check_file_path_conflicts(_, _, _)
check_file_path_conflicts(paths, prefix_sep, dir_sep) ==
    IF paths = <<>> THEN [valid |-> <<>>, invalid |-> <<>>]
    ELSE LET fp == Head(paths)
             path_str == PathStr(fp)
             rest == check_file_path_conflicts(Tail(paths), prefix_sep, dir_sep)
         IN  IF Contains(prefix_sep, path_str)
             THEN [valid |-> rest.valid, invalid |-> <<fp>> \o rest.invalid]
             ELSE IF Contains(dir_sep, path_str)
             THEN [valid |-> rest.valid, invalid |-> <<fp>> \o rest.invalid]
             ELSE [valid |-> <<fp>> \o rest.valid, invalid |-> rest.invalid]

\* ----------------------------------------------------------------- Grouper

\* parent_path = str(fp.parent); '.' becomes ''.
GroupKeyRaw(fp) == PathStr(Parent(fp))

GroupKey(fp) ==
    LET parent_path == PathStr(Parent(fp))
    IN  IF parent_path = <<".">> THEN <<>> ELSE parent_path

\* groups.setdefault(parent_path, []).append(fp) on a dict, which keeps its
\* keys in the order they were first set.
AddToGroup(gs, key, fp) ==
    IF \E i \in DOMAIN gs : gs[i].key = key
    THEN [i \in DOMAIN gs |->
             IF gs[i].key = key
             THEN [key |-> key, files |-> Append(gs[i].files, fp)]
             ELSE gs[i]]
    ELSE Append(gs, [key |-> key, files |-> <<fp>>])

RECURSIVE GroupInto(_, _)
GroupInto(gs, paths) ==
    IF paths = <<>> THEN gs
    ELSE GroupInto(AddToGroup(gs, GroupKey(Head(paths)), Head(paths)), Tail(paths))

group_files_by_directory(paths) == GroupInto(<<>>, paths)

\* ----------------------------------------------- Renderer and Output Writer

\* template.format(filepath=..., content=...) with the built-in template: a
\* start marker, the content, an end marker.
Render(filepath, content) ==
    <<[mark |-> "START", filepath |-> filepath]>> \o content \o
    <<[mark |-> "END", filepath |-> filepath]>>

\* The "\n" written after a rendered file.
Newline == <<[mark |-> "NL", filepath |-> <<>>]>>

\* What a file holds before the run: its own data.
Data(p) == <<[mark |-> "DATA", filepath |-> PathStr(p)]>>

\* Path(...).stem: the name up to its last dot, unless that dot is the
\* first or the last character.
Stem(p) ==
    LET name == Name(p)
        dots == { i \in DOMAIN name : name[i] = "." }
        last == IF dots = {} THEN 0 ELSE CHOOSE i \in dots : \A j \in dots : j <= i
    IN  IF 2 <= last /\ last <= Len(name) - 1 THEN SubSeq(name, 1, last - 1) ELSE name

\* output_name of split mode
SplitOutputName(output_prefix, prefix_sep, fp) ==
    output_prefix \o prefix_sep \o Name(fp)

\* output_name of grouped-split mode
GroupOutputName(output_prefix, prefix_sep, dir_sep, dir_path) ==
    IF dir_path # <<>>
    THEN output_prefix \o prefix_sep \o ReplaceSep(dir_path, dir_sep) \o
         <<".", "t", "x", "t">>
    ELSE output_prefix \o prefix_sep \o <<"r", "o", "o", "t", ".", "t", "x", "t">>

\* open(path, 'w') fails when the path is a directory or its parent is none.
OpenFails(f, p) == IsDir(f, p) \/ ~IsDir(f, Parent(p))

\* write_content_to_file: mkdir(parents=True, exist_ok=True) fails when a
\* file stands where a directory is needed; then open(..., 'w').
WriteFails(f, p) == IsDir(f, p) \/ \E q \in Prefixes(p) : IsFile(f, q)

\* The disk after a file was written whole.
Written(d, name, content) ==
    [k \in DOMAIN d \cup {name} |-> IF k = name THEN content ELSE d[k]]

\* ------------------------------------------------------ concat tool: main

\* parser.error(...): the run ends with the message.
Fail(msg) == pc' = "error" /\ err' = msg

\* An exception no handler catches: the run ends with a traceback.
Crash(msg) == pc' = "crashed" /\ err' = msg

\* directory.exists() and directory.is_dir()
DirOkExistsOnly(dir_path) ==
    IsDir(fs, ToPath(dir_path)) \/ IsFile(fs, ToPath(dir_path))

DirOk(dir_path) == IsDir(fs, ToPath(dir_path))

\* fp.exists() and fp.is_file()
FileOk(f) == IsFile(fs, ToPath(f))

\* main up to the choice between directory mode and file-list mode, and the
\* whole of file-list mode's validation.
ConcatStart ==
    /\ tool = "concat" /\ pc = "start"
    /\ IF args.version
       THEN /\ pc' = "done"
            /\ stdout' = Append(stdout, [kind |-> "version", value |-> <<>>])
            /\ UNCHANGED << err, file_paths, di >>
       ELSE IF args.group /\ ~args.split
       THEN Fail("--group can only be used with --split")
            /\ UNCHANGED << stdout, file_paths, di >>
       ELSE IF (args.split \/ args.group) /\ args.output = <<>>
       THEN Fail("--output is required when using --split or --group")
            /\ UNCHANGED << stdout, file_paths, di >>
       ELSE IF args.directory # <<>>
       THEN /\ pc' = "dirs" /\ di' = 1 /\ file_paths' = <<>>
            /\ UNCHANGED << err, stdout >>
       ELSE IF args.files = <<>>
       THEN Fail("At least one file is required unless --version or -d is specified")
            /\ UNCHANGED << stdout, file_paths, di >>
       ELSE /\ file_paths' = [i \in DOMAIN args.files |-> ToPath(args.files[i])]
            /\ IF \E i \in DOMAIN args.files : ~FileOk(args.files[i])
               THEN Fail("File does not exist or is not a file")
               ELSE pc' = "collected" /\ UNCHANGED err
            /\ UNCHANGED << stdout, di >>
    /\ UNCHANGED << tool, fs, args, top, stack, files, opened, walked,
                    exclude_dirs, valid_paths, invalid_paths, groups, oi, disk,
                    stream, ops >>

\* One iteration of  for dir_path in args.directory  up to the call of the
\* walker: the root is checked, then get_files_from_directory starts on it
\* (os.walk yields nothing for a top it cannot list).
DirCheck ==
    /\ tool = "concat" /\ pc = "dirs" /\ di <= Len(args.directory)
    /\ LET dir_path == args.directory[di]
           directory == ToPath(dir_path)
       IN  IF ~DirOk(dir_path)
           THEN Fail("Directory does not exist or is not a directory")
                /\ UNCHANGED << top, stack, files, walked >>
           ELSE /\ pc' = "walk"
                /\ top' = PathStr(directory)
                /\ stack' = IF IsDir(fs, directory) THEN <<PathStr(directory)>> ELSE <<>>
                /\ files' = <<>>
                /\ walked' = Append(walked, dir_path)
                /\ UNCHANGED err
    /\ UNCHANGED << tool, fs, args, di, opened, exclude_dirs, file_paths,
                    valid_paths, invalid_paths, groups, oi, disk, stream, ops,
                    stdout >>

\* file_paths.sort() of main
SortFilePathsNot(paths) == paths

SortFilePaths(paths) == SortedPaths(paths)

\* return sorted(files), and main's file_paths.extend(dir_files).
WalkReturn ==
    /\ tool = "concat" /\ pc = "walk" /\ stack = <<>>
    /\ file_paths' = file_paths \o SortedPaths(files)
    /\ files' = <<>>
    /\ di' = di + 1
    /\ pc' = "dirs"
    /\ UNCHANGED << tool, fs, args, err, top, stack, opened, walked,
                    exclude_dirs, valid_paths, invalid_paths, groups, oi, disk,
                    stream, ops, stdout >>

\* After the last root: the empty result is an error.
DirsDone ==
    /\ tool = "concat" /\ pc = "dirs" /\ di > Len(args.directory)
    /\ IF file_paths = <<>>
       THEN Fail("No matching files found in directories")
       ELSE pc' = "collected" /\ UNCHANGED err
    /\ UNCHANGED << tool, fs, args, di, top, stack, files, opened, walked,
                    exclude_dirs, file_paths, valid_paths, invalid_paths,
                    groups, oi, disk, stream, ops, stdout >>

\* The sort, the conflict check and the choice of the output mode; in
\* grouped-split mode the groups are built here.
SortAndCheck ==
    /\ tool = "concat" /\ pc = "collected"
    /\ LET sorted == SortFilePaths(file_paths)
           r == check_file_path_conflicts(sorted, args.prefix_separator,
                                          args.dir_separator)
       IN  /\ file_paths' = sorted
           /\ valid_paths' = r.valid
           /\ invalid_paths' = r.invalid
           /\ IF r.valid = <<>>
              THEN Fail("No valid files to process after checking for separator conflicts")
                   /\ UNCHANGED << groups, oi >>
              ELSE /\ UNCHANGED err
                   /\ oi' = 1
                   /\ IF args.split /\ args.group
                      THEN pc' = "group" /\ groups' = group_files_by_directory(r.valid)
                      ELSE IF args.split
                      THEN pc' = "split" /\ UNCHANGED groups
                      ELSE pc' = "single_open" /\ UNCHANGED groups
    /\ UNCHANGED << tool, fs, args, di, top, stack, files, opened, walked,
                    exclude_dirs, disk, stream, ops, stdout >>

\* relative_path = os.path.relpath(fp, start=os.getcwd())
RelativePath(fp) == RelPath(PathStr(fp), <<".">>)

ReadOp(fp) == [op |-> "read", path |-> PathStr(fp)]

WriteOp(name) == [op |-> "write", path |-> name]

\* group_content of one group: every file of sorted(group_files) read and
\* rendered, each followed by "\n".
RECURSIVE GroupContent(_, _)
GroupContent(d, fps) ==
    IF fps = <<>> THEN <<>>
    ELSE Render(RelativePath(Head(fps)), d[PathStr(Head(fps))]) \o Newline \o
         GroupContent(d, Tail(fps))

\* One iteration of  for dir_path, group_files in groups.items() .
GroupWrite ==
    /\ tool = "concat" /\ pc = "group" /\ oi <= Len(groups)
    /\ LET dir_path == groups[oi].key
           output_prefix == Stem(ToPath(args.output))
           output_name == GroupOutputName(output_prefix, args.prefix_separator,
                                          args.dir_separator, dir_path)
           output_path == ToPath(output_name)
           fps == SortedPaths(groups[oi].files)
           reads == [i \in DOMAIN fps |-> ReadOp(fps[i])]
       IN  IF WriteFails(fs, output_path)
           THEN Crash("OSError") /\ ops' = ops \o reads /\ UNCHANGED << disk, oi >>
           ELSE /\ disk' = Written(disk, PathStr(output_path), GroupContent(disk, fps))
                /\ ops' = ops \o reads \o <<WriteOp(PathStr(output_path))>>
                /\ oi' = oi + 1
                /\ pc' = IF oi = Len(groups) THEN "summary" ELSE "group"
                /\ UNCHANGED err
    /\ UNCHANGED << tool, fs, args, di, top, stack, files, opened, walked,
                    exclude_dirs, file_paths, valid_paths, invalid_paths,
                    groups, stream, stdout >>

\* One iteration of  for fp in valid_paths  of split mode.
SplitWrite ==
    /\ tool = "concat" /\ pc = "split" /\ oi <= Len(valid_paths)
    /\ LET fp == valid_paths[oi]
           output_prefix == Stem(ToPath(args.output))
           formatted == Render(RelativePath(fp), disk[PathStr(fp)])
           output_name == SplitOutputName(output_prefix, args.prefix_separator, fp)
           output_path == ToPath(output_name)
       IN  IF WriteFails(fs, output_path)
           THEN Crash("OSError") /\ ops' = Append(ops, ReadOp(fp))
                /\ UNCHANGED << disk, oi >>
           ELSE /\ disk' = Written(disk, PathStr(output_path), formatted)
                /\ ops' = ops \o <<ReadOp(fp), WriteOp(PathStr(output_path))>>
                /\ oi' = oi + 1
                /\ pc' = IF oi = Len(valid_paths) THEN "summary" ELSE "split"
                /\ UNCHANGED err
    /\ UNCHANGED << tool, fs, args, di, top, stack, files, opened, walked,
                    exclude_dirs, file_paths, valid_paths, invalid_paths,
                    groups, stream, stdout >>

\* Single output mode: out_file is opened for writing, which empties it, or
\* is sys.stdout.
SingleOpen ==
    /\ tool = "concat" /\ pc = "single_open"
    /\ stream' = <<>>
    /\ IF args.output # <<>>
       THEN LET out_path == ToPath(args.output)
            IN  IF OpenFails(fs, out_path)
                THEN Crash("OSError") /\ UNCHANGED << disk, ops >>
                ELSE /\ disk' = Written(disk, PathStr(out_path), <<>>)
                     /\ ops' = Append(ops, WriteOp(PathStr(out_path)))
                     /\ pc' = "single"
                     /\ UNCHANGED err
       ELSE pc' = "single" /\ UNCHANGED << disk, ops, err >>
    /\ UNCHANGED << tool, fs, args, di, top, stack, files, opened, walked,
                    exclude_dirs, file_paths, valid_paths, invalid_paths,
                    groups, oi, stdout >>

\* What read_text finds in fp: the file's content, and for the open output
\* file itself whatever part of the stream has been flushed so far.
ReadChoices(fp) ==
    IF args.output # <<>> /\ PathStr(fp) = PathStr(ToPath(args.output))
    THEN { SubSeq(stream, 1, k) : k \in 0..Len(stream) }
    ELSE { disk[PathStr(fp)] }

\* One iteration of  for fp in valid_paths  of single output mode.
SingleWrite ==
    /\ tool = "concat" /\ pc = "single" /\ oi <= Len(valid_paths)
    /\ LET fp == valid_paths[oi]
       IN  \E content \in ReadChoices(fp) :
              /\ stream' = stream \o Render(RelativePath(fp), content) \o Newline
              /\ ops' = Append(ops, ReadOp(fp))
    /\ oi' = oi + 1
    /\ pc' = IF oi = Len(valid_paths) THEN "single_close" ELSE "single"
    /\ UNCHANGED << tool, fs, args, err, di, top, stack, files, opened, walked,
                    exclude_dirs, file_paths, valid_paths, invalid_paths,
                    groups, disk, stdout >>

\* finally: out_file.close(); what went to sys.stdout has been printed.
SingleClose ==
    /\ tool = "concat" /\ pc = "single_close"
    /\ IF args.output # <<>>
       THEN /\ disk' = Written(disk, PathStr(ToPath(args.output)), stream)
            /\ UNCHANGED stdout
       ELSE /\ stdout' = Append(stdout, [kind |-> "output", value |-> stream])
            /\ UNCHANGED disk
    /\ pc' = "summary"
    /\ UNCHANGED << tool, fs, args, err, di, top, stack, files, opened, walked,
                    exclude_dirs, file_paths, valid_paths, invalid_paths,
                    groups, oi, stream, ops >>

\* The summary line.
Summary ==
    /\ tool = "concat" /\ pc = "summary"
    /\ stdout' = Append(stdout, [kind |-> "summary",
                                 value |-> <<Len(valid_paths), Len(invalid_paths)>>])
    /\ pc' = "done"
    /\ UNCHANGED << tool, fs, args, err, di, top, stack, files, opened, walked,
                    exclude_dirs, file_paths, valid_paths, invalid_paths,
                    groups, oi, disk, stream, ops >>

\* -------------------------------------------------------- list tool: main

\* os.path.splitext(x)[1]: from the last dot of the last component, unless
\* only dots precede it there.
SplitExt(x) ==
    LET seps == { i \in DOMAIN x : x[i] = Sep }
        dots == { i \in DOMAIN x : x[i] = "." }
        sepIndex == IF seps = {} THEN 0 ELSE CHOOSE i \in seps : \A j \in seps : j <= i
        dotIndex == IF dots = {} THEN 0 ELSE CHOOSE i \in dots : \A j \in dots : j <= i
    IN  IF dotIndex > sepIndex /\ \E k \in (sepIndex + 1)..(dotIndex - 1) : x[k] # "."
        THEN SubSeq(x, dotIndex, Len(x))
        ELSE <<>>

\* The sort key (os.path.splitext(x)[1], x), compared as a tuple of str.
ListKeyLt(x, y) ==
    \/ StrLt(SplitExt(x), SplitExt(y))
    \/ SplitExt(x) = SplitExt(y) /\ StrLt(x, y)

RECURSIVE InsertByKey(_, _)
InsertByKey(x, s) ==
    IF s = <<>> THEN <<x>>
    ELSE IF ListKeyLt(x, Head(s)) THEN <<x>> \o s
    ELSE <<Head(s)>> \o InsertByKey(x, Tail(s))

RECURSIVE SortedByKey(_)
SortedByKey(s) ==
    IF s = <<>> THEN <<>>
    ELSE InsertByKey(s[Len(s)], SortedByKey(SubSeq(s, 1, Len(s) - 1)))

\* main up to the call of get_file_paths, which starts os.walk(".").
ListStart ==
    /\ tool = "list" /\ pc = "start"
    /\ exclude_dirs' = { NormPath(args.omit_dirs[i]) : i \in DOMAIN args.omit_dirs }
                       \cup DEFAULT_EXCLUDE_DIRS
    /\ top' = <<".">>
    /\ stack' = << <<".">> >>
    /\ files' = <<>>
    /\ walked' = Append(walked, <<".">>)
    /\ pc' = "walk"
    /\ UNCHANGED << tool, fs, args, err, di, opened, file_paths, valid_paths,
                    invalid_paths, groups, oi, disk, stream, ops, stdout >>

\* get_file_paths returns; main sorts by extension, then path, and prints.
ListFinish ==
    /\ tool = "list" /\ pc = "walk" /\ stack = <<>>
    /\ file_paths' = SortedByKey(files)
    /\ stdout' = Append(stdout, [kind |-> "paths", value |-> SortedByKey(files)])
    /\ pc' = "done"
    /\ UNCHANGED << tool, fs, args, err, di, top, stack, files, opened, walked,
                    exclude_dirs, valid_paths, invalid_paths, groups, oi, disk,
                    stream, ops >>

Next ==
    \/ ConcatStart
    \/ DirCheck
    \/ ConcatWalkStep
    \/ WalkReturn
    \/ DirsDone
    \/ SortAndCheck
    \/ GroupWrite
    \/ SplitWrite
    \/ SingleOpen
    \/ SingleWrite
    \/ SingleClose
    \/ Summary
    \/ ListStart
    \/ ListWalkStep
    \/ ListFinish

\* --------------------------------------------------------- the inputs

\* The most files a modelled tree holds.
MaxFiles == 3

\* Every tree of at most MaxFiles files taken from the candidate paths.
Trees(candidates) ==
    { t \in SUBSET candidates : Cardinality(t) <= MaxFiles }

\* Every path made of one of the directories and one of the file names.
FilesIn(dirs, names) == { Append(d, n) : d \in dirs, n \in names }

\* parser.parse_args() of the concat tool; an option that was not given is
\* the empty sequence, and the separators default to "___" and "__".
ConcatArgs(directory, file_list, extensions, mode, seps) ==
    [ version |-> mode.version, files |-> file_list, output |-> mode.output,
      directory |-> directory, extensions |-> extensions,
      split |-> mode.split, group |-> mode.group,
      prefix_separator |-> seps[1], dir_separator |-> seps[2],
      omit_dirs |-> <<>> ]

\* parser.parse_args() of the list tool: -e is required, -o defaults to [].
ListArgs(extensions, omit_dirs) ==
    [ version |-> FALSE, files |-> <<>>, output |-> <<>>, directory |-> <<>>,
      extensions |-> extensions, split |-> FALSE, group |-> FALSE,
      prefix_separator |-> <<>>, dir_separator |-> <<>>,
      omit_dirs |-> omit_dirs ]

DefaultSeps == << <<"_", "_", "_">>, <<"_", "_">> >>

Mode(output, split, group) ==
    [version |-> FALSE, output |-> output, split |-> split, group |-> group]

\* The state as main is entered.
Start(t, f, a) ==
    /\ tool = t /\ fs = f /\ args = a
    /\ pc = "start" /\ err = ""
    /\ di = 0 /\ top = <<>> /\ stack = <<>> /\ files = <<>>
    /\ opened = <<>> /\ walked = <<>> /\ exclude_dirs = {}
    /\ file_paths = <<>> /\ valid_paths = <<>> /\ invalid_paths = <<>>
    /\ groups = <<>> /\ oi = 0
    /\ disk = [k \in { PathStr(q) : q \in f } |->
                  Data(CHOOSE q \in f : PathStr(q) = k)]
    /\ stream = <<>> /\ ops = <<>> /\ stdout = <<>>

\* --- the inputs of the whole pipeline

PipeDirs ==
    { <<>>, << <<"a">> >>, << <<"a", ".", "b">> >>, << <<"r", "o", "o", "t">> >>,
      << <<"a", "_">>, <<"b">> >>, << <<"a">>, <<"_", "b">> >> }

PipeNames == { <<"x", ".", "b">>, <<"x", "b">> }

PipeRoots ==
    { << <<".">> >>, << <<"a">> >>, << <<"a", ".", "b">>, <<"a">> >>,
      << <<"a">>, <<".">> >> }

PipeExts == { <<>>, << <<"b">> >> }

PipeOutput == <<"x", ".", "b">>

PipeModes ==
    { Mode(<<>>, FALSE, FALSE), Mode(PipeOutput, FALSE, FALSE),
      Mode(PipeOutput, TRUE, FALSE), Mode(PipeOutput, TRUE, TRUE) }

\* The defaults, a pair that clashes with some names, and an empty prefix
\* separator, which every path contains.
PipeSeps ==
    { DefaultSeps, << <<"_">>, <<".">> >>, << <<>>, <<"_", "_">> >> }

\* Command lines that main rejects or answers at once, and explicit file lists.
PipeOtherArgs ==
    { ConcatArgs(<< <<".">> >>, <<>>, <<>>, Mode(<<>>, TRUE, FALSE), DefaultSeps),
      ConcatArgs(<< <<".">> >>, <<>>, <<>>, Mode(PipeOutput, FALSE, TRUE), DefaultSeps),
      ConcatArgs(<<>>, <<>>, <<>>, Mode(<<>>, FALSE, FALSE), DefaultSeps),
      ConcatArgs(<<>>, <<>>, <<>>,
                 [version |-> TRUE, output |-> <<>>, split |-> FALSE, group |-> FALSE],
                 DefaultSeps) }
    \cup
    { ConcatArgs(<<>>, fl, <<>>, m, DefaultSeps) :
        fl \in { << <<"x", ".", "b">>, <<"a", "/", "x", "b">> >>,
                 << <<"a", "/", "x", "b">>, <<"x", ".", "b">> >>,
                 << <<"a">> >> },
        m \in PipeModes }

PipeArgs ==
    { ConcatArgs(d, <<>>, e, m, sp) :
        d \in PipeRoots, e \in PipeExts, m \in PipeModes, sp \in PipeSeps }
    \cup PipeOtherArgs

PipeListArgs == { ListArgs(<< <<".", "b">> >>, <<>>) }

Init ==
    \E f \in Trees(FilesIn(PipeDirs, PipeNames)) :
        \/ \E a \in PipeArgs : Start("concat", f, a)
        \/ \E a \in PipeListArgs : Start("list", f, a)

Spec == Init /\ [][Next]_vars

\* --- the inputs of the walkers

WalkDirs ==
    { <<>>, << <<"a">> >>, << <<"e", "n", "v">> >>,
      << <<"a">>, <<"e", "n", "v">> >>, << <<"e", "n", "v">>, <<"a">> >> }

WalkNames ==
    { <<"x", ".", "b">>, <<"x", "b">>,
      <<".", "D", "S", "_", "S", "t", "o", "r", "e">> }

WalkRoots ==
    { << <<".">> >>, << <<"a">> >>, << <<"e", "n", "v">> >>,
      << <<"a">>, <<"n", "o">> >>, << <<"a">>, <<"x", "b">> >>,
      << <<"x", "b">>, <<"a">> >>, << <<".">>, <<"a">> >> }

WalkExts == { <<>>, << <<"b">> >>, << <<".", "b">> >> }

WalkListExts == { << <<"b">> >>, << <<".", "b">> >>, << <<".", "b">>, <<"e">> >> }

WalkOmit == { <<>>, << <<"a", "/">> >> }

WalkArgs ==
    { ConcatArgs(d, <<>>, e, Mode(<<>>, FALSE, FALSE), DefaultSeps) :
        d \in WalkRoots, e \in WalkExts }

WalkListArgs == { ListArgs(e, o) : e \in WalkListExts, o \in WalkOmit }

InitWalk ==
    \E f \in Trees(FilesIn(WalkDirs, WalkNames)) :
        \/ \E a \in WalkArgs : Start("concat", f, a)
        \/ \E a \in WalkListArgs : Start("list", f, a)

\* The walks alone: both mains up to the end of the traversal.
NextWalk ==
    \/ ConcatStart
    \/ DirCheck
    \/ ConcatWalkStep
    \/ WalkReturn
    \/ DirsDone
    \/ ListStart
    \/ ListWalkStep
    \/ ListFinish

SpecWalk == InitWalk /\ [][NextWalk]_vars

\* -------------------------------------------------------- the properties

ToSet(s) == { s[i] : i \in DOMAIN s }

BadDirectory == "Directory does not exist or is not a directory"

NoValidFiles == "No valid files to process after checking for separator conflicts"

NoMatchingFiles == "No matching files found in directories"

\* The concat tool has sorted file_paths and checked them for conflicts.
PostSort ==
    /\ tool = "concat"
    /\ \/ pc \in {"group", "split", "single_open", "single", "single_close",
                  "summary", "crashed"}
       \/ pc = "done" /\ ~args.version
       \/ pc = "error" /\ err = NoValidFiles

DirMode == tool = "concat" /\ args.directory # <<>>

\* The exclusion set the running tool's walker uses.
ActiveExclusions == IF tool = "concat" THEN DEFAULT_EXCLUDE_DIRS ELSE exclude_dirs

\* The paths the walker has returned so far.
Returned ==
    IF tool = "concat" THEN ToSet(file_paths)
    ELSE IF pc = "done" THEN { ToPath(files[i]) : i \in DOMAIN files }
    ELSE {}

\* Every walk of the run has returned.
WalksFinished ==
    \/ tool = "concat" /\ DirMode
         /\ (pc = "collected" \/ (pc = "error" /\ err = NoMatchingFiles))
    \/ tool = "list" /\ pc = "done"

\* The roots the run walks, as paths.
RootPaths ==
    IF tool = "concat" THEN { ToPath(args.directory[i]) : i \in DOMAIN args.directory }
    ELSE { <<>> }

\* p lies below root r.
Below(p, r) == Len(r) < Len(p) /\ SubSeq(p, 1, Len(r)) = r

\* C1: no path a walker returns has a component (root prefix, directory or
\* file name) that is in the exclusion set.
C1_NoReturnedComponentExcluded ==
    \A p \in Returned : \A k \in DOMAIN p : p[k] \notin ActiveExclusions

\* C2, as claimed: in directory mode the processed list is sorted on the
\* full path string, character by character.
C2_SortedByPathString ==
    (DirMode /\ PostSort) =>
        \A i \in 1..(Len(file_paths) - 1) :
            StrLe(PathStr(file_paths[i]), PathStr(file_paths[i + 1]))

\* C2, amended: in directory mode the processed list is sorted on the
\* sequence of path components, each component compared as a string.
C2_SortedByComponents ==
    (DirMode /\ PostSort) =>
        \A i \in 1..(Len(file_paths) - 1) :
            LET p == file_paths[i]
                q == file_paths[i + 1]
                n == IF Len(p) < Len(q) THEN Len(p) ELSE Len(q)
                same == { k \in 0..n : \A j \in 1..k : p[j] = q[j] }
                k == CHOOSE m \in same : \A j \in same : j <= m
            IN  IF k = n THEN Len(p) <= Len(q) ELSE StrLt(p[k + 1], q[k + 1])

\* C2's case: two neighbours of the sorted list, one directory name a prefix
\* of the other's, which the string order would swap.
C2_Witness ==
    /\ DirMode /\ PostSort
    /\ \E i \in 1..(Len(file_paths) - 1) :
          /\ file_paths[i][1] # file_paths[i + 1][1]
          /\ StartsWith(file_paths[i + 1][1], file_paths[i][1])
          /\ StrLt(PathStr(file_paths[i + 1]), PathStr(file_paths[i]))

\* C3: with an extension filter every returned file name ends with a member
\* of the filter, each member first given its leading dot; without one every
\* file of every directory that is not excluded is returned.  Both walkers.
C3_ExtensionFilter ==
    WalksFinished =>
        LET X == args.extensions
            Dotted(x) == IF x # <<>> /\ x[1] = "." THEN x ELSE <<".">> \o x
        IN  IF X # <<>>
            THEN \A p \in Returned : \E i \in DOMAIN X : EndsWith(Name(p), Dotted(X[i]))
            ELSE \A f \in fs : \A r \in RootPaths :
                    ( /\ Below(f, r)
                      /\ \A k \in (Len(r) + 1)..(Len(f) - 1) : f[k] \notin ActiveExclusions )
                    => f \in Returned

\* C4: check_file_path_conflicts splits its input into valid and invalid:
\* together they are the input, no path is in both, and no valid path
\* contains either separator.
C4_Partition ==
    PostSort =>
        /\ ToSet(valid_paths) \cup ToSet(invalid_paths) = ToSet(file_paths)
        /\ ToSet(valid_paths) \cap ToSet(invalid_paths) = {}
        /\ Len(valid_paths) + Len(invalid_paths) = Len(file_paths)
        /\ \A i \in DOMAIN valid_paths :
              /\ ~Contains(args.prefix_separator, PathStr(valid_paths[i]))
              /\ ~Contains(args.dir_separator, PathStr(valid_paths[i]))

\* C4's case: some paths were kept, one was dropped for the prefix
\* separator and one for the directory separator alone.
C4_Witness ==
    /\ PostSort /\ valid_paths # <<>>
    /\ \E i \in DOMAIN invalid_paths :
          Contains(args.prefix_separator, PathStr(invalid_paths[i]))
    /\ \E i \in DOMAIN invalid_paths :
          /\ ~Contains(args.prefix_separator, PathStr(invalid_paths[i]))
          /\ Contains(args.dir_separator, PathStr(invalid_paths[i]))

\* The groups have been built.
Grouped ==
    /\ PostSort /\ args.split /\ args.group
    /\ pc \in {"group", "summary", "done", "crashed"}

\* The groups hold every valid path once, in input order, under distinct keys.
GroupsPartition ==
    /\ \A i, j \in DOMAIN groups : groups[i].key = groups[j].key => i = j
    /\ \A i \in DOMAIN groups : groups[i].files # <<>>
    /\ \A i \in DOMAIN valid_paths :
          \E g \in DOMAIN groups : valid_paths[i] \in ToSet(groups[g].files)

\* The parent directory of a path as a string, "" for the working directory.
ParentString(fp) ==
    IF Len(fp) = 1 THEN <<>> ELSE Join(SubSeq(fp, 1, Len(fp) - 1))

\* C5, as claimed: every path is in exactly one group, in input order; the
\* key is the path's parent-directory string, and the direct children of a
\* traversal root are under the empty key.
C5_RootChildrenUnderEmptyKey ==
    (Grouped /\ DirMode) =>
        /\ GroupsPartition
        /\ \A g \in DOMAIN groups :
              groups[g].files =
                  SelectSeq(valid_paths,
                      LAMBDA fp : groups[g].key =
                          IF Parent(fp) \in RootPaths THEN <<>> ELSE PathStr(Parent(fp)))

\* C5, amended: every path is in exactly one group, in input order; the key
\* is the path's parent-directory string, and it is empty only for the files
\* of the working directory: the direct children of any other root are
\* under that root's path.
C5_KeyIsParentString ==
    Grouped =>
        /\ GroupsPartition
        /\ \A g \in DOMAIN groups :
              groups[g].files =
                  SelectSeq(valid_paths, LAMBDA fp : groups[g].key = ParentString(fp))

\* C5's case: a file of the working directory and a direct child of a root
\* that is not the working directory were both grouped.
C5_Witness ==
    /\ Grouped /\ Len(groups) >= 2
    /\ \E g \in DOMAIN groups : groups[g].key = <<>>
    /\ \E i \in DOMAIN valid_paths :
          /\ Parent(valid_paths[i]) \in RootPaths
          /\ Parent(valid_paths[i]) # <<>>

\* The files the run has opened for writing.
OutputsWritten == { ops[i].path : i \in { j \in DOMAIN ops : ops[j].op = "write" } }

\* C6: after a successful split run there are as many output files as valid
\* inputs, and the output named after an input holds that input's rendering
\* and nothing else.
C6_OneOutputPerInput ==
    (tool = "concat" /\ pc = "done" /\ ~args.version /\ args.split /\ ~args.group) =>
        /\ Cardinality(OutputsWritten) = Len(valid_paths)
        /\ \A i \in DOMAIN valid_paths :
              LET fp == valid_paths[i]
                  name == Stem(ToPath(args.output)) \o args.prefix_separator \o Name(fp)
              IN  /\ name \in DOMAIN disk
                  /\ disk[name] = Render(PathStr(fp), Data(fp))

\* C7: after a successful grouped-split run there is one output file per
\* group, holding the renderings of that group's files, in sorted order, and
\* nothing else: distinct keys give distinct output names.
C7_OneOutputPerGroup ==
    (tool = "concat" /\ pc = "done" /\ ~args.version /\ args.split /\ args.group) =>
        /\ Cardinality(OutputsWritten) = Len(groups)
        /\ \A g \in DOMAIN groups :
              LET name == GroupOutputName(Stem(ToPath(args.output)),
                              args.prefix_separator, args.dir_separator, groups[g].key)
                  fps == SortedPaths(groups[g].files)
              IN  /\ name \in DOMAIN disk
                  /\ \A i \in DOMAIN fps :
                        \E k \in DOMAIN disk[name] : disk[name][k] = Data(fps[i])[1]
                  /\ \A k \in DOMAIN disk[name] :
                        disk[name][k].mark = "DATA" =>
                            \E i \in DOMAIN fps : disk[name][k] = Data(fps[i])[1]

\* C8, as claimed: when a root is rejected, no root has been walked.
C8_NothingWalkedAtError ==
    (tool = "concat" /\ pc = "error" /\ err = BadDirectory) =>
        walked = <<>> /\ opened = <<>>

\* C8, amended: when a root is rejected, the roots before it, all of them
\* directories, have been walked, the rejected root and the roots after it
\* have not, and no file has been read or written; no walk ever starts on a
\* root that is not a directory.
C8_EarlierRootsWalkedAtError ==
    tool = "concat" =>
        /\ \A i \in DOMAIN walked : IsDir(fs, ToPath(walked[i]))
        /\ (pc = "error" /\ err = BadDirectory) =>
              /\ walked = SubSeq(args.directory, 1, di - 1)
              /\ ~IsDir(fs, ToPath(args.directory[di]))
              /\ \A i \in DOMAIN opened :
                    \E k \in 1..(di - 1) : opened[i].top = PathStr(ToPath(args.directory[k]))
              /\ ops = <<>> /\ stdout = <<>>

\* C8's case: the second root is rejected after the first was walked.
C8_Witness ==
    /\ tool = "concat" /\ pc = "error" /\ err = BadDirectory
    /\ walked # <<>> /\ opened # <<>>

\* C9: os.walk never lists a directory that has, below the root of the
\* walk, a component in the exclusion set: such a directory is pruned before
\* the descent, and nothing under it is visited.  Both walkers.
C9_ExcludedNeverOpened ==
    \A i \in DOMAIN opened :
        LET t == ToPath(opened[i].top)
            d == ToPath(opened[i].root)
        IN  /\ d = t \/ Below(d, t)
            /\ \A k \in (Len(t) + 1)..Len(d) : d[k] \notin ActiveExclusions

\* C9's case: the walks are over, something was listed below the root, and
\* the tree has a file two levels below an excluded directory of a root.
C9_Witness ==
    /\ WalksFinished
    /\ \E i \in DOMAIN opened : opened[i].root # opened[i].top
    /\ \E f \in fs : \E r \in RootPaths :
          /\ Below(f, r) /\ Len(f) >= Len(r) + 3
          /\ f[Len(r) + 1] \in ActiveExclusions

\* C10: no valid input is opened for writing before it has been read.
C10_ReadBeforeWrite ==
    tool = "concat" =>
        \A j \in DOMAIN ops :
            ops[j].op = "write" =>
                \A v \in DOMAIN valid_paths :
                    PathStr(valid_paths[v]) = ops[j].path =>
                        \E i \in 1..(j - 1) : ops[i] = ReadOp(valid_paths[v])

====
